---- MODULE Spec2Model ----
(***************************************************************************)
(* The turn-synchronous bridge of the Pokemon battle environment:          *)
(* OpenEnvPokemonPlayer (mailbox _next_action/_action_event, latch         *)
(* _turn_complete_event, resolver choose_move) running on POKE_LOOP, and   *)
(* PokemonEnvironment (reset/step/close) called from caller threads.       *)
(*                                                                         *)
(* POKE_LOOP is modelled as a FIFO queue of ready handles (`ready`); each   *)
(* handle runs atomically up to the coroutine's next suspension point.     *)
(* Caller threads append handles with run_coroutine_threadsafe.            *)
(* The section of reset() and of step() that follows the blocking          *)
(* future.result() is one atomic action each.  The 35 s / 15 s bounds of    *)
(* future.result() exceed the 30 s / 10 s bounds enforced on the loop, so   *)
(* the loop-side timeout is the one that ends a wait.                       *)
(***************************************************************************)
EXTENDS Integers, Sequences, FiniteSets, TLC

VARIABLES
    next_action,          \* OpenEnvPokemonPlayer._next_action (NoAction = None)
    action_event,         \* OpenEnvPokemonPlayer._action_event is set
    turn_complete_event,  \* OpenEnvPokemonPlayer._turn_complete_event is set
    last_error,           \* OpenEnvPokemonPlayer._last_error ("" = None)
    illegal_action_count, \* OpenEnvPokemonPlayer._illegal_action_count
    ready,                \* POKE_LOOP's queue of ready handles
    cm,                   \* the choose_move coroutine: idle / waiting / woken
    wt,                   \* per caller: its wait_turn coroutine
    sb,                   \* per caller: its start_battle coroutine
    battles,              \* player.battles, in insertion order
    tasks,                \* the battle_against tasks created by start_battle
    state,                \* PokemonEnvironment._state
    current_battle,       \* PokemonEnvironment._current_battle (0 = None)
    battle_future,        \* PokemonEnvironment._battle_future (0 = None)
    reset_lock,           \* holder of _reset_lock
    step_lock,            \* holder of _step_lock
    accum,                \* _last_opponent_fainted/_last_player_fainted/_last_opponent_hp
    reward_mode,          \* PokemonEnvironment.reward_mode
    pc,                   \* per caller: where it is in reset()/step()
    act,                  \* per caller: the action of the step() in progress
    ret,                  \* what the most recently completed call returned or raised
    nreset,               \* number of reset() calls entered so far
    nsub,                 \* number of actions handed to set_next_action so far
    lastSet,              \* id of the action of the latest _set_action that ran
    res,                  \* what the latest choose_move invocation did
    taken,                \* ids of the actions choose_move took out of the mailbox
    faint_sum,            \* opponent-faint part of the step rewards since reset() was last called
    unreported,           \* the resolver recorded an error no completed step() has followed
    last_turn,            \* turn of the observation reset()/step() last returned
    ndone,                \* step() calls completed since the latest successful reset()
    early,                \* the signal for the action of the step in progress ran before its wait began
    entry_accum           \* the reward accumulators as the reset() in progress found them

vars == <<next_action, action_event, turn_complete_event, last_error,
          illegal_action_count, ready, cm, wt, sb, battles, tasks, state,
          current_battle, battle_future, reset_lock, step_lock, accum,
          reward_mode, pc, act, ret, nreset, nsub, lastSet, res,
          taken, faint_sum, unreported, last_turn, ndone, early,
          entry_accum>>

playerVars == <<next_action, action_event, turn_complete_event, last_error,
                illegal_action_count>>
envVars == <<state, current_battle, battle_future, accum>>
reportVars == <<faint_sum, unreported, last_turn, ndone, early, entry_accum>>
ghostVars == <<nreset, nsub, lastSet, res, taken, reportVars>>

----------------------------------------------------------------------------
(* Bounds of the model *)

\* calls of reset() and step() that get past their checks, over all callers
MaxCalls == 3
\* requests for a decision per battle
MaxBattleTurn == 1

(* Program constants *)

\* PokemonEnvironment(max_turns=...): the configured maximum turn count
max_turns == 2
\* app.py: POKEMON_MAX_TURNS defaults to 1000
DefaultMaxTurns == 1000
\* the out-of-range index of test_illegal_move
BigIndex == 99
\* "Your full team of 6 Pokemon": no more than 6 of a side can faint
TeamSize == 6
\* rewards are counted in thousandths: 1.0, 0.2, 0.5
SparseWin == 1000
FaintWeight == 200
OutcomeBonus == 500
\* HP fractions are counted in halves (FullHp = 1.0); 0.05 per unit of HP
\* fraction is 25 thousandths per half
FullHp == 2
HpWeight == 25

Threads == {"t1", "t2"}
Free == "free"
NoError == ""
\* an observation's reward: None, or a number of thousandths
NoReward == [set |-> FALSE, v |-> 0]
Reward(v) == [set |-> TRUE, v |-> v]
RewardModes == {"sparse", "dense"}
\* a reward_mode that is neither, as POKEMON_REWARD_MODE may give it
OtherMode == "shaped"

(* PokemonAction values; id is the order of submission, kept to tell apart *)
(* two submissions of equal actions                                        *)
Action(type, index, mega) == [type |-> type, index |-> index, mega |-> mega, id |-> 0]
NoAction == Action("none", 0, FALSE)
\* a value that is not a PokemonAction
NotAnAction == Action("not_a_pokemon_action", 0, FALSE)
ActionInputs ==
    { Action("move", 0, FALSE), Action("move", BigIndex, FALSE),
      Action("forfeit", 0, FALSE), Action("unknown", 0, FALSE), NotAnAction }
\* a step() that does not check the type of its argument
AnyIsAction(a) == TRUE
IsPokemonAction(a) == a.type # NotAnAction.type

(* BattleOrder values *)
Order(k, i, mega) == [k |-> k, i |-> i, mega |-> mega]
NoOrder == Order("none", 0, FALSE)
ForfeitBattleOrder == Order("forfeit", 0, FALSE)
\* Player.choose_random_move: an order the engine picks among the legal ones
RandomOrder == Order("random", 0, FALSE)

(* Handles of POKE_LOOP *)
Handle(k, t, a) == [k |-> k, t |-> t, a |-> a]

(* poke-env Battle objects *)
NewBattle ==
    [phase |-> "started", turn |-> 0, finished |-> FALSE, won |-> FALSE,
     lost |-> FALSE, nmoves |-> 0, nswitches |-> 0, can_mega |-> FALSE,
     opp_fainted |-> 0, my_fainted |-> 0, opp_hp |-> FullHp, task |-> 0]

InitAccum ==
    [last_opponent_fainted |-> 0, last_player_fainted |-> 0,
     last_opponent_hp |-> FullHp]

----------------------------------------------------------------------------
(* OpenEnvPokemonPlayer._action_to_order: the order, or the error raised *)

Ok(o) == [ok |-> TRUE, order |-> o, err |-> NoError]
Err(e) == [ok |-> FALSE, order |-> NoOrder, err |-> e]

\* Python list indexing xs[i] for a list of length n: negative indices count
\* from the end, anything outside -n..n-1 raises IndexError
PyIndex(i, n) ==
    IF i >= 0 /\ i < n THEN Ok(Order("item", i, FALSE))
    ELSE IF i < 0 /\ i >= -n THEN Ok(Order("item", i + n, FALSE))
    ELSE Err("list index out of range")

\* a resolver that does not check the index against the legal moves and
\* leaves the choice to the engine
ActionToOrderUnchecked(action, battle) ==
    IF action.type = "forfeit" THEN Ok(ForfeitBattleOrder) ELSE Ok(RandomOrder)

\* a resolver that checks the index of a switch only against an empty list
\* and lets the engine choose when the index is too large
ActionToOrderSwitchUnchecked(action, battle) ==
    IF action.type = "forfeit" THEN Ok(ForfeitBattleOrder)
    ELSE IF action.type = "move" THEN
        IF battle.nmoves = 0 THEN Err("No moves available")
        ELSE IF action.index >= battle.nmoves THEN Err("Move index out of range")
        ELSE IF ~PyIndex(action.index, battle.nmoves).ok
             THEN PyIndex(action.index, battle.nmoves)
        ELSE Ok(Order("move", PyIndex(action.index, battle.nmoves).order.i,
                      action.mega /\ battle.can_mega))
    ELSE IF action.type = "switch" THEN
        IF battle.nswitches = 0 THEN Err("No switches available")
        ELSE IF action.index >= battle.nswitches THEN Ok(RandomOrder)
        ELSE Ok(Order("switch", action.index, FALSE))
    ELSE IF action.type = "default" THEN Ok(RandomOrder)
    ELSE Err("Unknown action type")

\* a resolver that tests for forfeit only after the lists of legal moves
\* and switches, so that a forfeit with nothing legal is an error
ActionToOrderForfeitNeedsChoice(action, battle) ==
    IF action.type = "forfeit" THEN
        IF battle.nmoves = 0 /\ battle.nswitches = 0
        THEN Err("No moves available") ELSE Ok(ForfeitBattleOrder)
    ELSE IF action.type = "move" THEN
        IF battle.nmoves = 0 THEN Err("No moves available")
        ELSE IF action.index >= battle.nmoves THEN Err("Move index out of range")
        ELSE IF ~PyIndex(action.index, battle.nmoves).ok
             THEN PyIndex(action.index, battle.nmoves)
        ELSE Ok(Order("move", PyIndex(action.index, battle.nmoves).order.i,
                      action.mega /\ battle.can_mega))
    ELSE IF action.type = "switch" THEN
        IF battle.nswitches = 0 THEN Err("No switches available")
        ELSE IF action.index >= battle.nswitches THEN Err("Switch index out of range")
        ELSE IF ~PyIndex(action.index, battle.nswitches).ok
             THEN PyIndex(action.index, battle.nswitches)
        ELSE Ok(Order("switch", PyIndex(action.index, battle.nswitches).order.i, FALSE))
    ELSE IF action.type = "default" THEN Ok(RandomOrder)
    ELSE Err("Unknown action type")

ActionToOrder(action, battle) ==
    IF action.type = "forfeit" THEN Ok(ForfeitBattleOrder)
    ELSE IF action.type = "move" THEN
        IF battle.nmoves = 0 THEN Err("No moves available")
        ELSE IF action.index >= battle.nmoves THEN Err("Move index out of range")
        ELSE IF ~PyIndex(action.index, battle.nmoves).ok
             THEN PyIndex(action.index, battle.nmoves)
        ELSE Ok(Order("move", PyIndex(action.index, battle.nmoves).order.i,
                      action.mega /\ battle.can_mega))
    ELSE IF action.type = "switch" THEN
        IF battle.nswitches = 0 THEN Err("No switches available")
        ELSE IF action.index >= battle.nswitches THEN Err("Switch index out of range")
        ELSE IF ~PyIndex(action.index, battle.nswitches).ok
             THEN PyIndex(action.index, battle.nswitches)
        ELSE Ok(Order("switch", PyIndex(action.index, battle.nswitches).order.i, FALSE))
    ELSE IF action.type = "default" THEN Ok(RandomOrder)
    ELSE Err("Unknown action type")

----------------------------------------------------------------------------
(* PokemonEnvironment._compute_reward: the reward and the accumulators it  *)
(* leaves behind                                                           *)

Outcome(battle, win, loss) ==
    IF battle.won THEN win ELSE IF battle.lost THEN loss ELSE 0

\* a dense reward without the term for the opponent's HP
ComputeRewardNoHp(mode, battle, done, acc) ==
    IF mode = "sparse" THEN
        [reward |-> IF ~done THEN 0 ELSE Outcome(battle, SparseWin, -SparseWin),
         accum |-> acc, raised |-> FALSE]
    ELSE
        [reward |-> (battle.opp_fainted - acc.last_opponent_fainted) * FaintWeight
                    - (battle.my_fainted - acc.last_player_fainted) * FaintWeight
                    + (IF done THEN Outcome(battle, OutcomeBonus, -OutcomeBonus) ELSE 0),
         accum |-> [last_opponent_fainted |-> battle.opp_fainted,
                    last_player_fainted |-> battle.my_fainted,
                    last_opponent_hp |-> acc.last_opponent_hp],
         raised |-> FALSE]

\* a reward that pays the outcome bonus of the dense mode in the sparse mode
ComputeRewardHalfSparse(mode, battle, done, acc) ==
    [reward |-> IF ~done THEN 0 ELSE Outcome(battle, OutcomeBonus, -OutcomeBonus),
     accum |-> acc, raised |-> FALSE]

ComputeReward(mode, battle, done, acc) ==
    IF mode = "sparse" THEN
        [reward |-> IF ~done THEN 0 ELSE Outcome(battle, SparseWin, -SparseWin),
         accum |-> acc, raised |-> FALSE]
    ELSE IF mode = "dense" THEN
        LET faints == (battle.opp_fainted - acc.last_opponent_fainted) * FaintWeight
                      - (battle.my_fainted - acc.last_player_fainted) * FaintWeight
            has_opp == battle.turn > 0
            hp == IF has_opp
                  THEN (acc.last_opponent_hp - battle.opp_hp) * HpWeight ELSE 0
            bonus == IF done THEN Outcome(battle, OutcomeBonus, -OutcomeBonus) ELSE 0
        IN [reward |-> faints + hp + bonus,
            accum |-> [last_opponent_fainted |-> battle.opp_fainted,
                       last_player_fainted |-> battle.my_fainted,
                       last_opponent_hp |-> IF has_opp THEN battle.opp_hp
                                            ELSE acc.last_opponent_hp],
            raised |-> FALSE]
    \* lines 411-413: 0.0 when not done; when done the method calls itself
    \* with the same arguments until the interpreter raises RecursionError
    ELSE [reward |-> 0, accum |-> acc, raised |-> done]

(* PokemonEnvironment._battle_to_observation: the observation and the    *)
(* accumulators it leaves behind; reward=None asks for the computed reward *)
BattleToObservation(mode, battle, reward, done, acc) ==
    LET c == ComputeReward(mode, battle, done, acc)
    IN [obs |-> [turn |-> battle.turn, done |-> done,
                 reward |-> IF reward = NoReward THEN Reward(c.reward) ELSE reward,
                 last_error |-> NoError, illegal_action_count |-> 0,
                 has_metadata |-> FALSE],
        accum |-> IF reward = NoReward THEN c.accum ELSE acc,
        raised |-> reward = NoReward /\ c.raised]

NoObservation ==
    [turn |-> 0, done |-> FALSE, reward |-> NoReward,
     last_error |-> NoError, illegal_action_count |-> 0, has_metadata |-> FALSE]

\* what a call returned (outcome "ok") or raised; for a step, the action it
\* was called with and how its wait for the turn ended
Ret(op, outcome, a, wait, obs) ==
    [op |-> op, outcome |-> outcome, a |-> a, wait |-> wait, obs |-> obs]
\* no call has completed since a caller last entered reset() or step()
NoRet == Ret("none", "ok", NoAction, "none", NoObservation)


\* what an invocation of choose_move did: the path it took, the action it
\* consumed (id 0 = none), the order it returned, whether it scheduled
\* signal_complete, whether it counted an illegal action
Resolution(path, id, order, signalled, counted) ==
    [path |-> path, id |-> id, order |-> order, signalled |-> signalled,
     counted |-> counted]
NoResolution == Resolution("none", 0, NoOrder, FALSE, FALSE)

----------------------------------------------------------------------------
Init ==
    /\ next_action = NoAction
    /\ action_event = FALSE
    /\ turn_complete_event = FALSE
    /\ last_error = NoError
    /\ illegal_action_count = 0
    /\ ready = <<>>
    /\ cm = "idle"
    /\ wt = [t \in Threads |-> "none"]
    /\ sb = [t \in Threads |-> "none"]
    /\ battles = <<>>
    /\ tasks = <<>>
    /\ state = [episode_id |-> 0, step_count |-> 0, battle_id |-> 0,
                is_battle_finished |-> FALSE, battle_winner |-> "None"]
    /\ current_battle = 0
    /\ battle_future = 0
    /\ reset_lock = Free
    /\ step_lock = Free
    /\ accum = InitAccum
    /\ reward_mode \in RewardModes \cup {OtherMode}
    /\ pc = [t \in Threads |-> "idle"]
    /\ act = [t \in Threads |-> NoAction]
    /\ ret = NoRet
    /\ nreset = 0
    /\ nsub = 0
    /\ lastSet = 0
    /\ res = NoResolution
    /\ taken = {}
    /\ faint_sum = 0
    /\ unreported = FALSE
    /\ last_turn = 0
    /\ ndone = 0
    /\ early = FALSE
    /\ entry_accum = InitAccum

----------------------------------------------------------------------------
(* asyncio.Event.set(): mark the event and wake the coroutines waiting on  *)
(* it, each by a handle at the back of the ready queue                     *)

\* _action_event's only waiter is choose_move
WakeChooseMove(q) == IF cm = "waiting" THEN Append(q, Handle("cm_wake", "t1", NoAction)) ELSE q

RECURSIVE WakeWaiters(_, _)
WakeWaiters(q, ts) ==
    IF ts = {} THEN q
    ELSE LET t == CHOOSE x \in ts : TRUE
         IN WakeWaiters(IF wt[t] = "waiting"
                        THEN Append(q, Handle("wt_wake", t, NoAction)) ELSE q,
                        ts \ {t})

----------------------------------------------------------------------------
(* OpenEnvPokemonPlayer on POKE_LOOP *)

HeadIs(k) == ready # <<>> /\ Head(ready).k = k

\* a mailbox that keeps the first unconsumed action instead of the last
SetActionKeepsFirst(action) ==
    /\ next_action' = IF next_action = NoAction THEN action ELSE next_action
    /\ last_error' = NoError
    /\ action_event' = TRUE

\* a _set_action that sets the event and stores nothing
SetActionSignalsOnly(action) ==
    /\ next_action' = next_action
    /\ last_error' = NoError
    /\ action_event' = TRUE

\* set_next_action._set_action
SetAction(action) ==
    /\ next_action' = action
    /\ last_error' = NoError
    /\ action_event' = TRUE

RunSetAction ==
    /\ HeadIs("set_action")
    /\ SetAction(Head(ready).a)
    /\ ready' = WakeChooseMove(Tail(ready))
    /\ cm' = IF cm = "waiting" THEN "woken" ELSE cm
    /\ lastSet' = Head(ready).a.id
    /\ UNCHANGED <<turn_complete_event, illegal_action_count, wt, sb, battles,
                   tasks, envVars, reset_lock, step_lock, reward_mode, pc, act,
                   ret, nreset, nsub, res,
                   taken, reportVars>>

\* wait_for_turn_complete up to its await: clear the latch, then wait on it
RunWaitTurn ==
    /\ HeadIs("wait_turn")
    /\ turn_complete_event' = FALSE
    /\ wt' = [wt EXCEPT ![Head(ready).t] = "waiting"]
    /\ ready' = Tail(ready)
    /\ early' = /\ act[Head(ready).t].id \in taken
                /\ \A i \in 1..Len(ready) : ready[i].k # "signal_complete"
    /\ UNCHANGED <<next_action, action_event, last_error, illegal_action_count,
                   cm, sb, battles, tasks, envVars, reset_lock, step_lock,
                   reward_mode, pc, act, ret, nreset, nsub, lastSet, res,
                   taken, faint_sum, unreported, last_turn, ndone,
                   entry_accum>>

\* choose_move.signal_complete, run by call_soon
RunSignalComplete ==
    /\ HeadIs("signal_complete")
    /\ turn_complete_event' = TRUE
    /\ ready' = WakeWaiters(Tail(ready), Threads)
    /\ wt' = [t \in Threads |-> IF wt[t] = "waiting" THEN "woken" ELSE wt[t]]
    /\ UNCHANGED <<next_action, action_event, last_error, illegal_action_count,
                   cm, sb, battles, tasks, envVars, reset_lock, step_lock,
                   reward_mode, pc, act, ret, ghostVars>>

\* wait_for_turn_complete returns: the future of the caller completes
RunWaitTurnWake ==
    /\ HeadIs("wt_wake")
    /\ wt' = [wt EXCEPT ![Head(ready).t] = "done"]
    /\ ready' = Tail(ready)
    /\ UNCHANGED <<playerVars, cm, sb, battles, tasks, envVars, reset_lock,
                   step_lock, reward_mode, pc, act, ret, ghostVars>>

\* a wait on the latch without a timeout
WaitTurnNeverTimesOut(t) == FALSE /\ UNCHANGED vars

\* wait_for_turn_complete: asyncio.wait_for raises TimeoutError after 30 s
WaitTurnTimeout(t) ==
    /\ wt[t] = "waiting"
    /\ wt' = [wt EXCEPT ![t] = "timeout"]
    /\ UNCHANGED <<playerVars, ready, cm, sb, battles, tasks, envVars,
                   reset_lock, step_lock, reward_mode, pc, act, ret, ghostVars>>

----------------------------------------------------------------------------
(* The simulation: the battles of the player, driven by the server *)

\* the battle in progress is the newest one (max_concurrent_battles=1)
Active == Len(battles)
HasActive == battles # <<>> /\ ~battles[Active].finished

\* the legal moves, switches and modifiers a request may announce
Requests ==
    { [nmoves |-> 0, nswitches |-> 0, can_mega |-> FALSE],
      [nmoves |-> 1, nswitches |-> 0, can_mega |-> FALSE] }

\* the damage the turns resolved so far may have done: none, or (when the
\* run follows the damage) one more faint on either side and a different HP
\* fraction of the opponent's active pokemon
Progress(b, damage) ==
    { [opp_fainted |-> f, my_fainted |-> g, opp_hp |-> h] :
        f \in { b.opp_fainted, IF damage /\ b.opp_fainted < TeamSize
                               THEN b.opp_fainted + 1 ELSE b.opp_fainted },
        g \in { b.my_fainted, IF damage /\ b.my_fainted < TeamSize
                              THEN b.my_fainted + 1 ELSE b.my_fainted },
        h \in IF damage THEN 0..FullHp ELSE {b.opp_hp} }

WithRequest(b, rq, pr) ==
    [b EXCEPT !.phase = "request", !.turn = b.turn + 1,
              !.nmoves = rq.nmoves, !.nswitches = rq.nswitches,
              !.can_mega = rq.can_mega, !.opp_fainted = pr.opp_fainted,
              !.my_fainted = pr.my_fainted, !.opp_hp = pr.opp_hp]

FirstPending ==
    CHOOSE k \in 1..Len(tasks) :
        tasks[k] = "pending" /\ \A j \in 1..(k - 1) : tasks[j] # "pending"

\* a challenge is accepted and the battle object appears in player.battles
BattleCreated ==
    /\ \E k \in 1..Len(tasks) : tasks[k] = "pending"
    /\ ~HasActive
    /\ battles' = Append(battles, [NewBattle EXCEPT !.task = FirstPending])
    /\ tasks' = [tasks EXCEPT ![FirstPending] = "running"]
    /\ UNCHANGED <<playerVars, ready, cm, wt, sb, envVars, reset_lock,
                   step_lock, reward_mode, pc, act, ret, ghostVars>>

\* the server asks for a decision: its message reaches POKE_LOOP
SimRequest ==
    /\ HasActive
    /\ battles[Active].phase \in {"started", "sent"}
    /\ battles[Active].turn < MaxBattleTurn
    /\ cm = "idle"
    /\ battles' = [battles EXCEPT ![Active].phase = "arriving"]
    /\ ready' = Append(ready, Handle("cm_start", "t1", NoAction))
    /\ UNCHANGED <<playerVars, cm, wt, sb, tasks, envVars, reset_lock,
                   step_lock, reward_mode, pc, act, ret, ghostVars>>

\* the battle ends: after a forfeit order it is lost
SimFinish(damage) ==
    /\ HasActive
    /\ battles[Active].phase \in {"sent", "sent_forfeit"}
    /\ \E o \in {"won", "lost", "tie"}, pr \in Progress(battles[Active], damage) :
        /\ battles[Active].phase = "sent_forfeit" => o = "lost"
        /\ battles' = [battles EXCEPT ![Active] =
              [@ EXCEPT !.phase = "finished", !.finished = TRUE,
                        !.won = (o = "won"), !.lost = (o = "lost"),
                        !.opp_fainted = pr.opp_fainted,
                        !.my_fainted = pr.my_fainted, !.opp_hp = pr.opp_hp]]
    /\ tasks' = [tasks EXCEPT ![battles[Active].task] =
                    IF @ = "running" THEN "done" ELSE @]
    /\ UNCHANGED <<playerVars, ready, cm, wt, sb, envVars, reset_lock,
                   step_lock, reward_mode, pc, act, ret, ghostVars>>

----------------------------------------------------------------------------
(* OpenEnvPokemonPlayer.choose_move *)

Sent(b, order) ==
    [b EXCEPT !.phase = IF order = ForfeitBattleOrder THEN "sent_forfeit" ELSE "sent"]

\* a take that reads the action and leaves the slot and the event as they are
TakeLeavesSlot(b, q) ==
    LET action == next_action
        r == ActionToOrder(action, b)
    IN /\ next_action' = next_action
       /\ action_event' = action_event
       /\ cm' = "idle"
       /\ taken' = IF action = NoAction THEN taken ELSE taken \cup {action.id}
       /\ IF action = NoAction THEN
              /\ res' = Resolution("empty", 0, RandomOrder, FALSE, FALSE)
              /\ battles' = [battles EXCEPT ![Active] = Sent(b, RandomOrder)]
              /\ ready' = q
              /\ UNCHANGED <<last_error, illegal_action_count, unreported>>
          ELSE IF r.ok THEN
              /\ res' = Resolution("resolved", action.id, r.order, TRUE, FALSE)
              /\ battles' = [battles EXCEPT ![Active] = Sent(b, r.order)]
              /\ ready' = Append(q, Handle("signal_complete", "t1", NoAction))
              /\ UNCHANGED <<last_error, illegal_action_count, unreported>>
          ELSE
              /\ res' = Resolution("invalid", action.id, RandomOrder, TRUE, TRUE)
              /\ battles' = [battles EXCEPT ![Active] = Sent(b, RandomOrder)]
              /\ last_error' = r.err
              /\ illegal_action_count' = illegal_action_count + 1
              /\ unreported' = TRUE
              /\ ready' = Append(q, Handle("signal_complete", "t1", NoAction))

\* lines 99-122: take the action out of the mailbox and resolve it against
\* battle b; q is the ready queue without the handle being run
Take(b, q) ==
    LET action == next_action
        r == ActionToOrder(action, b)
    IN /\ next_action' = NoAction
       /\ action_event' = FALSE
       /\ cm' = "idle"
       /\ taken' = IF action = NoAction THEN taken ELSE taken \cup {action.id}
       /\ IF action = NoAction THEN
              /\ res' = Resolution("empty", 0, RandomOrder, FALSE, FALSE)
              /\ battles' = [battles EXCEPT ![Active] = Sent(b, RandomOrder)]
              /\ ready' = q
              /\ UNCHANGED <<last_error, illegal_action_count, unreported>>
          ELSE IF r.ok THEN
              /\ res' = Resolution("resolved", action.id, r.order, TRUE, FALSE)
              /\ battles' = [battles EXCEPT ![Active] = Sent(b, r.order)]
              /\ ready' = Append(q, Handle("signal_complete", "t1", NoAction))
              /\ UNCHANGED <<last_error, illegal_action_count, unreported>>
          ELSE
              /\ res' = Resolution("invalid", action.id, RandomOrder, TRUE, TRUE)
              /\ battles' = [battles EXCEPT ![Active] = Sent(b, RandomOrder)]
              /\ last_error' = r.err
              /\ illegal_action_count' = illegal_action_count + 1
              /\ unreported' = TRUE
              /\ ready' = Append(q, Handle("signal_complete", "t1", NoAction))

\* choose_move is called for a request: it takes at once when the event is
\* set, and waits on _action_event otherwise
RunChooseMoveOn(R, damage) ==
    /\ HeadIs("cm_start")
    /\ \E rq \in R,
          pr \in Progress(battles[Active], damage /\ battles[Active].turn >= 1) :
         LET b == WithRequest(battles[Active], rq, pr)
         IN IF action_event
            THEN Take(b, Tail(ready))
            ELSE /\ cm' = "waiting"
                 /\ battles' = [battles EXCEPT ![Active] = b]
                 /\ ready' = Tail(ready)
                 /\ res' = NoResolution
                 /\ UNCHANGED <<next_action, action_event, last_error,
                                illegal_action_count, taken, unreported>>
    /\ UNCHANGED <<turn_complete_event, wt, sb, tasks, envVars, reset_lock,
                   step_lock, reward_mode, pc, act, ret, nreset, nsub, lastSet,
                   faint_sum, last_turn, ndone, early,
                   entry_accum>>

RunChooseMove(damage) == RunChooseMoveOn(Requests, damage)

\* choose_move resumes after _action_event was set
RunChooseMoveWake ==
    /\ HeadIs("cm_wake")
    /\ Take(battles[Active], Tail(ready))
    /\ UNCHANGED <<turn_complete_event, wt, sb, tasks, envVars, reset_lock,
                   step_lock, reward_mode, pc, act, ret, nreset, nsub, lastSet,
                   faint_sum, last_turn, ndone, early,
                   entry_accum>>

\* a wait on the action event without a timeout
ChooseMoveNeverTimesOut == FALSE /\ UNCHANGED vars

\* lines 94-97: no action within 60 s
ChooseMoveTimeout ==
    /\ cm = "waiting"
    /\ cm' = "idle"
    /\ last_error' = "Action timeout"
    /\ res' = Resolution("timeout", 0, ForfeitBattleOrder, FALSE, FALSE)
    /\ battles' = [battles EXCEPT ![Active] = Sent(@, ForfeitBattleOrder)]
    /\ unreported' = TRUE
    /\ UNCHANGED <<next_action, action_event, turn_complete_event,
                   illegal_action_count, ready, wt, sb, tasks, envVars,
                   reset_lock, step_lock, reward_mode, pc, act, ret, nreset,
                   nsub, lastSet, taken, faint_sum, last_turn, ndone, early,
                   entry_accum>>

----------------------------------------------------------------------------
(* PokemonEnvironment.reset *)

\* `with self._reset_lock:` can be entered
ResetLockFree == reset_lock = Free

\* lines 480-516: take the lock, reset the reward tracking, hand
\* start_battle to POKE_LOOP
ResetEnter(t) ==
    /\ pc[t] = "idle"
    /\ nreset + nsub < MaxCalls
    /\ ResetLockFree
    /\ reset_lock' = t
    /\ accum' = InitAccum
    /\ ready' = Append(ready, Handle("start_battle", t, NoAction))
    /\ sb' = [sb EXCEPT ![t] = "queued"]
    /\ pc' = [pc EXCEPT ![t] = "reset_wait"]
    /\ nreset' = nreset + 1
    /\ ret' = NoRet
    /\ faint_sum' = 0
    /\ UNCHANGED <<playerVars, cm, wt, battles, tasks, state, current_battle,
                   battle_future, step_lock, reward_mode, act, nsub,
                   lastSet, res, taken, unreported, last_turn, ndone, early>>
    /\ entry_accum' = accum

\* start_battle, lines 495-507: create the battle_against task, then poll
\* player.battles; the first poll is immediate
RunStartBattle ==
    /\ HeadIs("start_battle")
    /\ tasks' = Append(tasks, "pending")
    /\ sb' = IF Head(ready).t \in Threads
             THEN [sb EXCEPT ![Head(ready).t] = IF battles # <<>> THEN "ok" ELSE "polling"]
             ELSE sb
    /\ ready' = Tail(ready)
    /\ UNCHANGED <<playerVars, cm, wt, battles, envVars, reset_lock, step_lock,
                   reward_mode, pc, act, ret, ghostVars>>

\* start_battle, lines 503-513: a later poll finds a battle
PollFound(t) ==
    /\ sb[t] = "polling"
    /\ battles # <<>>
    /\ sb' = [sb EXCEPT ![t] = "ok"]
    /\ UNCHANGED <<playerVars, ready, cm, wt, battles, tasks, envVars,
                   reset_lock, step_lock, reward_mode, pc, act, ret, ghostVars>>

\* start_battle, lines 509-510: no battle after 10 s
PollTimeout(t) ==
    /\ sb[t] = "polling"
    /\ battles = <<>>
    /\ sb' = [sb EXCEPT ![t] = "fail"]
    /\ UNCHANGED <<playerVars, ready, cm, wt, battles, tasks, envVars,
                   reset_lock, step_lock, reward_mode, pc, act, ret, ghostVars>>

\* a reset() whose caller is no longer waiting for start_battle
Abandoned == "abandoned"

\* lines 516-521: future.result(timeout=15.0) raises before POKE_LOOP has
\* run start_battle; reset() raises RuntimeError, and the coroutine stays
\* queued with nobody waiting for its result
ResetResultTimeout(t) ==
    /\ pc[t] = "reset_wait"
    /\ sb[t] = "queued"
    /\ ready' = [i \in 1..Len(ready) |->
                   IF ready[i].k = "start_battle" /\ ready[i].t = t
                   THEN Handle("start_battle", Abandoned, NoAction) ELSE ready[i]]
    /\ pc' = [pc EXCEPT ![t] = "idle"]
    /\ sb' = [sb EXCEPT ![t] = "none"]
    /\ reset_lock' = Free
    /\ ret' = Ret("reset", "RuntimeError", NoAction, "none", NoObservation)
    /\ entry_accum' = InitAccum
    /\ UNCHANGED <<playerVars, cm, wt, battles, tasks, envVars, step_lock,
                   reward_mode, act, nreset, nsub, lastSet, res, taken,
                   faint_sum, unreported, last_turn, ndone, early>>

\* list(self.player.battles.keys())[0]
FirstBattle == 1

\* a reset() that keeps the episode id of the controller
ResetFinishKeepsEpisode(t) ==
    /\ pc[t] = "reset_wait"
    /\ sb[t] \in {"ok", "fail"}
    /\ pc' = [pc EXCEPT ![t] = "idle"]
    /\ sb' = [sb EXCEPT ![t] = "none"]
    /\ reset_lock' = Free
    /\ IF sb[t] = "fail" \/ battles = <<>> THEN
           /\ ret' = Ret("reset", "RuntimeError", NoAction, "none", NoObservation)
           /\ battle_future' = IF sb[t] = "fail" THEN battle_future ELSE Len(tasks)
           /\ UNCHANGED <<state, current_battle, accum, last_turn, ndone>>
       ELSE
           LET o == BattleToObservation(reward_mode, battles[FirstBattle],
                                        NoReward, FALSE, accum)
           IN /\ battle_future' = Len(tasks)
              /\ current_battle' = FirstBattle
              /\ state' = [episode_id |-> IF state.episode_id = 0 THEN 1
                                          ELSE state.episode_id,
                           step_count |-> 0, battle_id |-> FirstBattle,
                           is_battle_finished |-> FALSE, battle_winner |-> "None"]
              /\ accum' = o.accum
              /\ ret' = Ret("reset", "ok", NoAction, "none", o.obs)
              /\ last_turn' = o.obs.turn
              /\ ndone' = 0
    /\ UNCHANGED <<playerVars, ready, cm, wt, battles, tasks, step_lock,
                   reward_mode, act, nreset, nsub, lastSet, res,
                   taken, faint_sum, unreported, early>>
    /\ entry_accum' = InitAccum

\* a reset() that leaves the step counter as it is
ResetFinishKeepsCount(t) ==
    /\ pc[t] = "reset_wait"
    /\ sb[t] \in {"ok", "fail"}
    /\ pc' = [pc EXCEPT ![t] = "idle"]
    /\ sb' = [sb EXCEPT ![t] = "none"]
    /\ reset_lock' = Free
    /\ IF sb[t] = "fail" \/ battles = <<>> THEN
           /\ ret' = Ret("reset", "RuntimeError", NoAction, "none", NoObservation)
           /\ battle_future' = IF sb[t] = "fail" THEN battle_future ELSE Len(tasks)
           /\ UNCHANGED <<state, current_battle, accum, last_turn, ndone>>
       ELSE
           LET o == BattleToObservation(reward_mode, battles[FirstBattle],
                                        NoReward, FALSE, accum)
           IN /\ battle_future' = Len(tasks)
              /\ current_battle' = FirstBattle
              /\ state' = [episode_id |-> state.episode_id + 1,
                           step_count |-> state.step_count,
                           battle_id |-> FirstBattle,
                           is_battle_finished |-> FALSE, battle_winner |-> "None"]
              /\ accum' = o.accum
              /\ ret' = Ret("reset", "ok", NoAction, "none", o.obs)
              /\ last_turn' = o.obs.turn
              /\ ndone' = 0
    /\ UNCHANGED <<playerVars, ready, cm, wt, battles, tasks, step_lock,
                   reward_mode, act, nreset, nsub, lastSet, res,
                   taken, faint_sum, unreported, early>>
    /\ entry_accum' = InitAccum

\* a reset() that starts the illegal-action counter afresh
ResetFinishClearsCounter(t) ==
    /\ pc[t] = "reset_wait"
    /\ sb[t] \in {"ok", "fail"}
    /\ pc' = [pc EXCEPT ![t] = "idle"]
    /\ sb' = [sb EXCEPT ![t] = "none"]
    /\ reset_lock' = Free
    /\ IF sb[t] = "fail" \/ battles = <<>> THEN
           /\ ret' = Ret("reset", "RuntimeError", NoAction, "none", NoObservation)
           /\ battle_future' = IF sb[t] = "fail" THEN battle_future ELSE Len(tasks)
           /\ UNCHANGED <<state, current_battle, accum, last_turn, ndone>>
       ELSE
           LET o == BattleToObservation(reward_mode, battles[FirstBattle],
                                        NoReward, FALSE, accum)
           IN /\ battle_future' = Len(tasks)
              /\ current_battle' = FirstBattle
              /\ state' = [episode_id |-> state.episode_id + 1, step_count |-> 0,
                           battle_id |-> FirstBattle,
                           is_battle_finished |-> FALSE, battle_winner |-> "None"]
              /\ accum' = o.accum
              /\ ret' = Ret("reset", "ok", NoAction, "none", o.obs)
              /\ last_turn' = o.obs.turn
              /\ ndone' = 0
    /\ illegal_action_count' = 0
    /\ UNCHANGED <<next_action, action_event, turn_complete_event, last_error,
                   ready, cm, wt, battles, tasks, step_lock,
                   reward_mode, act, nreset, nsub, lastSet, res,
                   taken, faint_sum, unreported, early>>
    /\ entry_accum' = InitAccum

\* lines 517-540, after future.result() returned or raised
ResetFinish(t) ==
    /\ pc[t] = "reset_wait"
    /\ sb[t] \in {"ok", "fail"}
    /\ pc' = [pc EXCEPT ![t] = "idle"]
    /\ sb' = [sb EXCEPT ![t] = "none"]
    /\ reset_lock' = Free
    /\ IF sb[t] = "fail" \/ battles = <<>> THEN
           /\ ret' = Ret("reset", "RuntimeError", NoAction, "none", NoObservation)
           /\ battle_future' = IF sb[t] = "fail" THEN battle_future ELSE Len(tasks)
           /\ UNCHANGED <<state, current_battle, accum, last_turn, ndone>>
       ELSE
           LET o == BattleToObservation(reward_mode, battles[FirstBattle],
                                        NoReward, FALSE, accum)
           IN /\ battle_future' = Len(tasks)
              /\ current_battle' = FirstBattle
              /\ state' = [episode_id |-> state.episode_id + 1, step_count |-> 0,
                           battle_id |-> FirstBattle,
                           is_battle_finished |-> FALSE, battle_winner |-> "None"]
              /\ accum' = o.accum
              /\ ret' = Ret("reset", "ok", NoAction, "none", o.obs)
              /\ last_turn' = o.obs.turn
              /\ ndone' = 0
    /\ UNCHANGED <<playerVars, ready, cm, wt, battles, tasks, step_lock,
                   reward_mode, act, nreset, nsub, lastSet, res,
                   taken, faint_sum, unreported, early>>
    /\ entry_accum' = InitAccum

----------------------------------------------------------------------------
(* PokemonEnvironment.step *)

\* a step() that does not wait for the lock
StepLockIgnored == TRUE

\* `with self._step_lock:` can be entered
StepLockFree == step_lock = Free

\* lines 558-568: take the lock, check the action and the battle, hand the
\* action to set_next_action
StepSubmit(t, a) ==
    /\ pc[t] = "idle"
    /\ StepLockFree
    /\ IF ~IsPokemonAction(a) THEN
           /\ ret' = Ret("step", "TypeError", a, "none", NoObservation)
           /\ UNCHANGED <<ready, step_lock, pc, act, nsub, early>>
       ELSE IF current_battle = 0 THEN
           /\ ret' = Ret("step", "RuntimeError", a, "none", NoObservation)
           /\ UNCHANGED <<ready, step_lock, pc, act, nsub, early>>
       ELSE
           /\ nreset + nsub < MaxCalls
           /\ nsub' = nsub + 1
           /\ step_lock' = t
           /\ act' = [act EXCEPT ![t] = [a EXCEPT !.id = nsub + 1]]
           /\ ready' = Append(ready, Handle("set_action", t, [a EXCEPT !.id = nsub + 1]))
           /\ pc' = [pc EXCEPT ![t] = "step_sent"]
           /\ ret' = NoRet
           /\ early' = FALSE
    /\ UNCHANGED <<playerVars, cm, wt, sb, battles, tasks, envVars, reset_lock,
                   reward_mode, nreset, lastSet, res,
                   taken, faint_sum, unreported, last_turn, ndone,
                   entry_accum>>

\* lines 571-574: hand wait_turn to POKE_LOOP
StepAwait(t) ==
    /\ pc[t] = "step_sent"
    /\ ready' = Append(ready, Handle("wait_turn", t, NoAction))
    /\ wt' = [wt EXCEPT ![t] = "queued"]
    /\ pc' = [pc EXCEPT ![t] = "step_wait"]
    /\ UNCHANGED <<playerVars, cm, sb, battles, tasks, envVars, reset_lock,
                   step_lock, reward_mode, act, ret, ghostVars>>

Winner(battle) ==
    IF battle.won THEN "self" ELSE IF battle.lost THEN "opponent" ELSE "tie"

\* a step() without the max-turn limit
StepFinishNoMaxTurns(t) ==
    /\ pc[t] = "step_wait"
    /\ wt[t] \in {"done", "timeout"}
    /\ LET battle == battles[current_battle]
           done == battle.finished
           o == BattleToObservation(reward_mode, battle, NoReward, done, accum)
       IN /\ state' = [state EXCEPT
                 !.step_count = @ + 1,
                 !.is_battle_finished = IF done THEN TRUE ELSE @,
                 !.battle_winner = IF done THEN Winner(battle) ELSE @]
          /\ accum' = o.accum
          /\ ret' = Ret("step", "ok", act[t], wt[t], o.obs)
          /\ last_turn' = o.obs.turn
    /\ unreported' = FALSE
    /\ ndone' = ndone + 1
    /\ wt' = [wt EXCEPT ![t] = "none"]
    /\ pc' = [pc EXCEPT ![t] = "idle"]
    /\ act' = [act EXCEPT ![t] = NoAction]
    /\ step_lock' = Free
    /\ UNCHANGED <<playerVars, ready, cm, sb, battles, tasks, current_battle,
                   battle_future, reset_lock, reward_mode, nreset, nsub,
                   lastSet, res, taken, faint_sum, early,
                   entry_accum>>

\* a step() that lets the timeout of its wait escape to the caller
StepFinishRaisesOnTimeout(t) ==
    /\ pc[t] = "step_wait"
    /\ wt[t] \in {"done", "timeout"}
    /\ ret' = Ret("step", IF wt[t] = "timeout" THEN "TimeoutError" ELSE "ok",
                  act[t], wt[t], NoObservation)
    /\ state' = [state EXCEPT !.step_count = IF wt[t] = "timeout" THEN @ ELSE @ + 1]
    /\ wt' = [wt EXCEPT ![t] = "none"]
    /\ pc' = [pc EXCEPT ![t] = "idle"]
    /\ act' = [act EXCEPT ![t] = NoAction]
    /\ step_lock' = Free
    /\ UNCHANGED <<playerVars, ready, cm, sb, battles, tasks, current_battle,
                   battle_future, accum, reset_lock, reward_mode, ghostVars>>

\* a step() that reports the end of the battle only the first time it sees
\* it
StepFinishReportsFinishOnce(t, limit) ==
    /\ pc[t] = "step_wait"
    /\ wt[t] \in {"done", "timeout"}
    /\ LET battle == battles[current_battle]
           count == state.step_count + 1
           finished == battle.finished
           done == (finished /\ ~state.is_battle_finished) \/ count >= limit
           o == BattleToObservation(reward_mode, battle, NoReward, done, accum)
       IN /\ state' = [state EXCEPT
                 !.step_count = count,
                 !.is_battle_finished = IF finished THEN TRUE ELSE @,
                 !.battle_winner = IF finished THEN Winner(battle) ELSE @]
          /\ accum' = o.accum
          /\ ret' = IF o.raised
                    THEN Ret("step", "RecursionError", act[t], wt[t], NoObservation)
                    ELSE Ret("step", "ok", act[t], wt[t],
                             IF last_error # NoError
                             THEN [o.obs EXCEPT !.last_error = last_error,
                                                !.illegal_action_count = illegal_action_count,
                                                !.has_metadata = TRUE]
                             ELSE o.obs)
          /\ faint_sum' = IF reward_mode = "dense"
                          THEN faint_sum + (battle.opp_fainted
                                   - accum.last_opponent_fainted) * FaintWeight
                          ELSE faint_sum
          /\ last_turn' = IF o.raised THEN last_turn ELSE o.obs.turn
          /\ unreported' = IF o.raised THEN unreported ELSE FALSE
    /\ ndone' = ndone + 1
    /\ wt' = [wt EXCEPT ![t] = "none"]
    /\ pc' = [pc EXCEPT ![t] = "idle"]
    /\ act' = [act EXCEPT ![t] = NoAction]
    /\ step_lock' = Free
    /\ UNCHANGED <<playerVars, ready, cm, sb, battles, tasks, current_battle,
                   battle_future, reset_lock, reward_mode, nreset, nsub,
                   lastSet, res, taken, early,
                   entry_accum>>

\* lines 575-612, after future.result() returned or raised, for an
\* environment constructed with max_turns = limit
StepFinishAt(t, limit) ==
    /\ pc[t] = "step_wait"
    /\ wt[t] \in {"done", "timeout"}
    /\ LET battle == battles[current_battle]
           count == state.step_count + 1
           finished == battle.finished
           done == finished \/ count >= limit
           o == BattleToObservation(reward_mode, battle, NoReward, done, accum)
       IN /\ state' = [state EXCEPT
                 !.step_count = count,
                 !.is_battle_finished = IF finished THEN TRUE ELSE @,
                 !.battle_winner = IF finished THEN Winner(battle) ELSE @]
          /\ accum' = o.accum
          /\ ret' = IF o.raised
                    THEN Ret("step", "RecursionError", act[t], wt[t], NoObservation)
                    ELSE Ret("step", "ok", act[t], wt[t],
                             IF last_error # NoError
                             THEN [o.obs EXCEPT !.last_error = last_error,
                                                !.illegal_action_count = illegal_action_count,
                                                !.has_metadata = TRUE]
                             ELSE o.obs)
          /\ faint_sum' = IF reward_mode = "dense"
                          THEN faint_sum + (battle.opp_fainted
                                   - accum.last_opponent_fainted) * FaintWeight
                          ELSE faint_sum
          /\ last_turn' = IF o.raised THEN last_turn ELSE o.obs.turn
          /\ unreported' = IF o.raised THEN unreported ELSE FALSE
    /\ ndone' = ndone + 1
    /\ wt' = [wt EXCEPT ![t] = "none"]
    /\ pc' = [pc EXCEPT ![t] = "idle"]
    /\ act' = [act EXCEPT ![t] = NoAction]
    /\ step_lock' = Free
    /\ UNCHANGED <<playerVars, ready, cm, sb, battles, tasks, current_battle,
                   battle_future, reset_lock, reward_mode, nreset, nsub,
                   lastSet, res, taken, early,
                   entry_accum>>

StepFinish(t) == StepFinishAt(t, max_turns)

----------------------------------------------------------------------------
(* PokemonEnvironment.close: cancel the battle task unless it is done *)

\* a close() that cancels the waits on the turn latch with the battle task
CloseCancelsWaits(t) ==
    /\ pc[t] = "idle"
    /\ tasks' = IF battle_future # 0 /\ tasks[battle_future] \in {"pending", "running"}
                THEN [tasks EXCEPT ![battle_future] = "cancelled"] ELSE tasks
    /\ wt' = [u \in Threads |-> IF wt[u] = "waiting" THEN "cancelled" ELSE wt[u]]
    /\ ret' = Ret("close", "ok", NoAction, "none", NoObservation)
    /\ UNCHANGED <<playerVars, ready, cm, sb, battles, envVars, reset_lock,
                   step_lock, reward_mode, pc, act, ghostVars>>

\* a close() that raises unless there is a battle task left to cancel
CloseNeedsRunningTask(t) ==
    /\ pc[t] = "idle"
    /\ IF battle_future # 0 /\ tasks[battle_future] \in {"pending", "running"}
       THEN /\ tasks' = [tasks EXCEPT ![battle_future] = "cancelled"]
            /\ ret' = Ret("close", "ok", NoAction, "none", NoObservation)
       ELSE /\ tasks' = tasks
            /\ ret' = Ret("close", "RuntimeError", NoAction, "none", NoObservation)
    /\ UNCHANGED <<playerVars, ready, cm, wt, sb, battles, envVars, reset_lock,
                   step_lock, reward_mode, pc, act, ghostVars>>

Close(t) ==
    /\ pc[t] = "idle"
    /\ tasks' = IF battle_future # 0 /\ tasks[battle_future] \in {"pending", "running"}
                THEN [tasks EXCEPT ![battle_future] = "cancelled"] ELSE tasks
    /\ ret' = Ret("close", "ok", NoAction, "none", NoObservation)
    /\ UNCHANGED <<playerVars, ready, cm, wt, sb, battles, envVars, reset_lock,
                   step_lock, reward_mode, pc, act, ghostVars>>

----------------------------------------------------------------------------
(* The loop and the simulation; the callers *)

LoopNextOn(R, damage) ==
    \/ RunSetAction
    \/ RunWaitTurn
    \/ RunSignalComplete
    \/ RunWaitTurnWake
    \/ RunChooseMoveOn(R, damage)
    \/ RunChooseMoveWake
    \/ ChooseMoveTimeout
    \/ RunStartBattle
    \/ BattleCreated
    \/ SimRequest
    \/ SimFinish(damage)
    \/ \E t \in Threads : WaitTurnTimeout(t)
    \/ \E t \in Threads : PollFound(t)
    \/ \E t \in Threads : PollTimeout(t)

LoopNext(damage) == LoopNextOn(Requests, damage)

CallerNext(T, A) ==
    \/ \E t \in T : ResetEnter(t)
    \/ \E t \in T : ResetFinish(t)
    \/ \E t \in T, a \in A : StepSubmit(t, a)
    \/ \E t \in T : StepAwait(t)
    \/ \E t \in T : StepFinish(t)
    \/ \E t \in T : Close(t)

\* the callers of an environment constructed with max_turns = limit
CallerNextAt(T, A, limit) ==
    \/ \E t \in T : ResetEnter(t)
    \/ \E t \in T : ResetFinish(t)
    \/ \E t \in T, a \in A : StepSubmit(t, a)
    \/ \E t \in T : StepAwait(t)
    \/ \E t \in T : StepFinishAt(t, limit)
    \/ \E t \in T : Close(t)

\* Spec: two callers on one controller, sparse rewards, legal and
\* out-of-range moves
ConcurrentInputs == { Action("move", 0, FALSE), Action("move", BigIndex, FALSE) }
InitConcurrent == Init /\ reward_mode = "sparse"
Next == LoopNext(FALSE) \/ CallerNext(Threads, ConcurrentInputs)
Spec == InitConcurrent /\ [][Next]_vars

\* SpecSeq: one caller, both reward modes, every kind of action
NextSeq == LoopNext(FALSE) \/ CallerNext({"t1"}, ActionInputs)
InitSeq == Init /\ reward_mode \in RewardModes
SpecSeq == InitSeq /\ [][NextSeq]_vars

\* SpecModes: one caller under a reward mode that is neither sparse nor dense
ModeInputs == { Action("move", 0, FALSE), Action("forfeit", 0, FALSE) }
InitModes == Init /\ reward_mode = OtherMode
NextModes == LoopNext(FALSE) \/ CallerNext({"t1"}, ModeInputs)
SpecModes == InitModes /\ [][NextModes]_vars

\* SpecDense: one caller playing legal moves for dense rewards, with the
\* damage the battle does
DenseInputs == { Action("move", 0, FALSE) }
InitDense == Init /\ reward_mode = "dense"
NextDense == LoopNext(TRUE) \/ CallerNext({"t1"}, DenseInputs)
SpecDense == InitDense /\ [][NextDense]_vars

\* SpecOrders: one caller submitting switches, forfeits, defaults and moves
\* with a modifier, against requests with and without switch targets and
\* with and without the modifier available
OrderInputs ==
    { Action("move", 0, TRUE), Action("switch", 0, FALSE),
      Action("switch", BigIndex, FALSE), Action("forfeit", 0, FALSE),
      Action("default", 0, FALSE) }
OrderRequests ==
    { [nmoves |-> 0, nswitches |-> 0, can_mega |-> FALSE],
      [nmoves |-> 1, nswitches |-> 1, can_mega |-> FALSE],
      [nmoves |-> 1, nswitches |-> 1, can_mega |-> TRUE] }
NextOrders == LoopNextOn(OrderRequests, FALSE) \/ CallerNext({"t1"}, OrderInputs)
SpecOrders == InitConcurrent /\ [][NextOrders]_vars

\* SpecIndex: one caller submitting moves and switches with a negative
\* index, next to a legal move
IndexInputs ==
    { Action("move", -1, FALSE), Action("switch", -1, FALSE),
      Action("move", 0, FALSE) }
NextIndex == LoopNextOn(OrderRequests, FALSE) \/ CallerNext({"t1"}, IndexInputs)
SpecIndex == InitConcurrent /\ [][NextIndex]_vars

\* SpecLong: one caller of an environment with the default turn limit of
\* the server, which no episode here reaches
NextLong == LoopNext(FALSE) \/ CallerNextAt({"t1"}, ModeInputs, DefaultMaxTurns)
SpecLong == InitConcurrent /\ [][NextLong]_vars

\* SpecStall: SpecDense where POKE_LOOP may be so late in running
\* start_battle that reset() gives up waiting for it
NextStall ==
    \/ LoopNext(TRUE)
    \/ CallerNext({"t1"}, DenseInputs)
    \/ ResetResultTimeout("t1")
SpecStall == InitDense /\ [][NextStall]_vars

\* POKE_LOOP runs the handle at the head of its queue
LoopRuns ==
    \/ RunSetAction
    \/ RunWaitTurn
    \/ RunSignalComplete
    \/ RunWaitTurnWake
    \/ RunChooseMove(FALSE)
    \/ RunChooseMoveWake
    \/ RunStartBattle

\* LiveSeq: SpecSeq where POKE_LOOP keeps running its ready handles, the
\* 30 s timer of wait_for fires, and a caller inside step() keeps running.
\* Nothing is assumed of the simulation or of the decision timeout.
LiveSeq ==
    /\ SpecSeq
    /\ WF_vars(LoopRuns)
    /\ \A t \in Threads : WF_vars(WaitTurnTimeout(t))
    /\ \A t \in Threads : WF_vars(StepAwait(t))
    /\ \A t \in Threads : WF_vars(StepFinish(t))

\* LiveResolver: SpecSeq where POKE_LOOP keeps running its ready handles
\* and the 60 s timer of the wait_for in choose_move fires. Nothing is
\* assumed of the callers or of the simulation.
LiveResolver ==
    /\ SpecSeq
    /\ WF_vars(LoopRuns)
    /\ WF_vars(ChooseMoveTimeout)

----------------------------------------------------------------------------
(* Claims *)

\* a step of the behaviour in which choose_move takes an action out of the
\* mailbox
IsTake == next_action # NoAction /\ next_action' = NoAction

\* C1: whenever choose_move takes an action, it takes the one the most
\* recent _set_action put there (however many were submitted since the
\* previous take), and every action taken earlier was submitted before it:
\* an overwritten action is never returned by a later take.
C1_LastWriteWins ==
    [][IsTake => /\ res'.id = lastSet
                 /\ res'.id \notin taken
                 /\ \A j \in taken : j < res'.id
                 /\ taken' = taken \cup {lastSet}]_vars

\* the second of two submissions was taken and the first, overwritten, was
\* never taken
C1_Witness == res.id = 2 /\ lastSet = 2 /\ taken = {2}

\* C2: every successful reset() returns done=false and reward unset.
\* (The code hands reward=None to _battle_to_observation, which takes None
\* as the request to compute the reward: the observation carries a number.)
C2_ResetRewardUnset ==
    (ret.op = "reset" /\ ret.outcome = "ok")
        => (ret.obs.done = FALSE /\ ret.obs.reward = NoReward)

InReset(t) == pc[t] = "reset_wait"
InStep(t) == pc[t] \in {"step_sent", "step_wait"}

\* C3: no caller is inside reset() while another is inside step().
\* (reset() takes _reset_lock and step() takes _step_lock: two locks.)
C3_ResetStepExclusive ==
    \A t, u \in Threads : ~(InReset(t) /\ InStep(u))

\* C4: at most one step() is between submitting its action and taking its
\* snapshot, and the caller inside it holds _step_lock; an action is handed
\* to set_next_action only by the step in progress, so every action
\* submitted earlier belongs to a step that has returned.
C4_StepsSerialized ==
    /\ \A t, u \in Threads : (InStep(t) /\ InStep(u)) => t = u
    /\ \A t \in Threads : InStep(t) => (step_lock = t /\ act[t].id = nsub)

\* a second step() is in progress after an earlier one returned, while the
\* other caller is free to call step()
C4_Witness ==
    /\ InStep("t2") /\ act["t2"].id = 2
    /\ pc["t1"] = "idle" /\ state.step_count = 1

\* C5: a step() released by the latch has had its own action consumed.
\* (A signal scheduled for a left-over action can run after the next step
\* cleared the latch and release that step with its action unconsumed.)
C5_SignalMeansOwnActionTaken ==
    \A t \in Threads : (InStep(t) /\ wt[t] \in {"woken", "done"}) => act[t].id \in taken

\* the valid actions a caller may pass to step()
ValidInputs == { a \in ActionInputs : a.type # NotAnAction.type }
StepUntouched ==
    UNCHANGED <<playerVars, ready, cm, wt, sb, battles, tasks, envVars,
                reset_lock, step_lock, reward_mode, pc, act, ghostVars>>

\* C6: step() with a value that is not a PokemonAction raises TypeError, and
\* step() with a valid action before any successful reset() raises
\* RuntimeError; either way nothing is handed to the mailbox and the step
\* counter and the rest of the state stay as they were.
C6_StepRejects ==
    [][\A t \in Threads :
        /\ StepSubmit(t, NotAnAction)
              => (ret'.op = "step" /\ ret'.outcome = "TypeError" /\ StepUntouched)
        /\ \A a \in ValidInputs :
              (state.episode_id = 0 /\ StepSubmit(t, a))
                 => (ret'.op = "step" /\ ret'.outcome = "RuntimeError"
                     /\ StepUntouched)]_vars

\* after a successful reset, a step() with a non-action raised TypeError
C6_Witness == ret.op = "step" /\ ret.outcome = "TypeError" /\ state.episode_id = 1

IsBigMove(a) == a.type = "move" /\ a.index = BigIndex
HasErrorMetadata(obs) ==
    obs.has_metadata /\ obs.last_error # NoError /\ obs.illegal_action_count >= 1
StepReturns(t) == InStep(t) /\ pc'[t] = "idle"

\* C7 as stated: within an episode, every step() with an out-of-range Move
\* returns an observation whose metadata has a non-empty last_error and
\* illegal_action_count >= 1.
C7_AlwaysErrorMetadata ==
    (ret.op = "step" /\ IsBigMove(ret.a) /\ state.episode_id >= 1)
        => (ret.outcome = "ok" /\ HasErrorMetadata(ret.obs))

\* C7, amended: within an episode a step() with an out-of-range Move never
\* raises; when
\* choose_move takes that action it falls back to the engine's choice and
\* counts it; the observation carries the error metadata if choose_move has
\* taken the action by the time of the snapshot, and no last_error if the
\* action is still unconsumed then.
C7_OutOfRangeMove ==
    /\ [][(IsTake /\ IsBigMove(next_action))
            => /\ res'.order = RandomOrder
               /\ res'.path = "invalid"
               /\ illegal_action_count' = illegal_action_count + 1
               /\ last_error' # NoError]_vars
    /\ [][\A t \in Threads : (StepReturns(t) /\ IsBigMove(act[t]))
            => /\ ret'.op = "step" /\ ret'.outcome = "ok" /\ ret'.a = act[t]
               /\ (act[t].id \in taken => HasErrorMetadata(ret'.obs))
               /\ (act[t].id \notin taken /\ next_action = act[t]
                      => ~ret'.obs.has_metadata)]_vars

\* a step() with an out-of-range Move returned after the latch was signalled,
\* with the error metadata
C7_Witness ==
    /\ ret.op = "step" /\ IsBigMove(ret.a) /\ ret.wait = "done"
    /\ ret.a.id \in taken /\ HasErrorMetadata(ret.obs)

\* C8: every step() that got past its checks returns, whatever its action
\* and whatever the simulation does.
C8_StepReturns == \A t \in Threads : InStep(t) ~> (pc[t] = "idle")

\* a step() returned on its timeout while the simulation had never asked for
\* a decision, its action still in the mailbox
C8_Witness ==
    /\ ret.op = "step" /\ ret.outcome = "ok" /\ ret.wait = "timeout"
    /\ next_action = ret.a /\ battles[1].phase = "started"

\* C9: on a decision timeout the resolver signals the latch, returns the
\* engine's default order, not a forfeit, and counts the event like an
\* invalid action.
C9_TimeoutFallsBackToDefault ==
    res.path = "timeout"
        => (res.order = RandomOrder /\ res.signalled /\ res.counted)

\* C10: when the wait on the latch times out, step() does not raise: it adds
\* exactly one to the step counter and returns the snapshot of the battle as
\* it is then.
C10_TimeoutStillSnapshots ==
    [][\A t \in Threads : (StepReturns(t) /\ wt[t] = "timeout")
        => /\ ret'.op = "step" /\ ret'.outcome = "ok" /\ ret'.wait = "timeout"
           /\ state'.step_count = state.step_count + 1
           /\ ret'.obs.turn = battles[current_battle].turn
           /\ ret'.obs.done = (battles[current_battle].finished
                               \/ state'.step_count >= max_turns)]_vars

\* a step() whose wait timed out returned an observation and counted
C10_Witness ==
    ret.op = "step" /\ ret.outcome = "ok" /\ ret.wait = "timeout"
        /\ state.step_count = 2

\* C11: every step() that leaves the step counter at max_turns or more
\* returns done=true, whether or not the simulation has finished.
C11_MaxTurnsForcesDone ==
    [][\A t \in Threads :
        (StepReturns(t) /\ state'.step_count >= max_turns)
            => (ret'.op = "step" /\ ret'.outcome = "ok" /\ ret'.obs.done)]_vars

\* a step() returned done=true at the max-turn limit while the battle was
\* not finished
C11_Witness ==
    /\ ret.op = "step" /\ ret.outcome = "ok" /\ ret.obs.done
    /\ state.step_count = max_turns
    /\ ~battles[current_battle].finished

\* C12: after a step() that returned done=true, the state snapshot has its
\* finished flag set and a winner tag among self/opponent/tie.
\* (A step forced terminal by max_turns leaves both as they were.)
C12_TerminalStepInState ==
    (ret.op = "step" /\ ret.outcome = "ok" /\ ret.obs.done)
        => /\ state.is_battle_finished
           /\ state.battle_winner \in {"self", "opponent", "tie"}

\* C13: in sparse mode a step() that returns done=false has reward 0, and a
\* step() that returns done=true has reward +1 if the battle was won, -1 if
\* it was lost and 0 otherwise (a tie, or a terminal forced by max_turns).
C13_SparseReward ==
    [][\A t \in Threads :
        (StepReturns(t) /\ reward_mode = "sparse")
            => /\ ret'.op = "step" /\ ret'.outcome = "ok"
               /\ ret'.obs.reward.set
               /\ ~ret'.obs.done => ret'.obs.reward.v = 0
               /\ ret'.obs.done =>
                    ret'.obs.reward.v =
                       IF battles[current_battle].won THEN SparseWin
                       ELSE IF battles[current_battle].lost THEN -SparseWin
                       ELSE 0
               /\ accum' = accum]_vars

\* a sparse step on a battle that was won returned done=true and reward +1
C13_Witness ==
    /\ reward_mode = "sparse" /\ ret.op = "step" /\ ret.outcome = "ok"
    /\ ret.obs.done /\ ret.obs.reward = Reward(SparseWin)
    /\ battles[current_battle].won

\* C14: in dense mode the reward of a step is 0.2 x (opponent faints now -
\* opponent faints at the previous computation) - 0.2 x (own faints now - own
\* faints at the previous computation) + 0.05 x (previous opponent HP
\* fraction - current opponent HP fraction), plus +0.5 for a win or -0.5 for
\* a loss only when the step is terminal; the computation leaves the current
\* counts behind as the previous ones of the next.
C14_DenseReward ==
    [][\A t \in Threads :
        (StepReturns(t) /\ reward_mode = "dense")
            => LET b == battles[current_battle]
               IN /\ ret'.op = "step" /\ ret'.outcome = "ok"
                  /\ ret'.obs.reward =
                       Reward((b.opp_fainted - accum.last_opponent_fainted) * FaintWeight
                              - (b.my_fainted - accum.last_player_fainted) * FaintWeight
                              + (accum.last_opponent_hp - b.opp_hp) * HpWeight
                              + (IF ~ret'.obs.done THEN 0
                                 ELSE IF b.won THEN OutcomeBonus
                                 ELSE IF b.lost THEN -OutcomeBonus ELSE 0))
                  /\ accum'.last_opponent_fainted = b.opp_fainted
                  /\ accum'.last_player_fainted = b.my_fainted
                  /\ accum'.last_opponent_hp = b.opp_hp]_vars

\* a dense step returned 0.2 + 0.025 + 0.5 for the one opponent faint, the
\* half of the opponent's HP and the win that happened since the reset
C14_Witness ==
    /\ reward_mode = "dense" /\ ret.op = "step" /\ ret.outcome = "ok"
    /\ ret.obs.done /\ battles[current_battle].won
    /\ battles[current_battle].opp_fainted = 1
    /\ battles[current_battle].my_fainted = 0
    /\ battles[current_battle].opp_hp = 1
    /\ ret.obs.reward = Reward(FaintWeight + HpWeight + OutcomeBonus)

\* C15: in dense mode, after every step() the opponent-faint contributions
\* of the rewards of the steps since reset() was last called add up to
\* 0.2 x the opponent faints of the current battle.
\* (reset() computes a reward of its own, which takes the faints the battle
\* already shows into the accumulator without any step being paid for them.)
C15_FaintContributionsAddUp ==
    [][\A t \in Threads :
        (StepReturns(t) /\ reward_mode = "dense")
            => faint_sum' = battles[current_battle].opp_fainted * FaintWeight]_vars

ResetReturns(t) == InReset(t) /\ pc'[t] = "idle"

\* C16: every successful reset() assigns an episode id that no earlier
\* episode of the controller had (ids are handed out in increasing order and
\* never go back), sets the step counter to 0, the finished flag to false
\* and the winner tag to unset.
C16_ResetStartsEpisode ==
    /\ [][state'.episode_id >= state.episode_id]_vars
    /\ [][\A t \in Threads :
            (ResetReturns(t) /\ ret'.outcome = "ok")
                => /\ ret'.op = "reset"
                   /\ state'.episode_id > state.episode_id
                   /\ state'.step_count = 0
                   /\ state'.is_battle_finished = FALSE
                   /\ state'.battle_winner = "None"]_vars

\* a second reset() succeeded after a step() had finished the first episode
C16_Witness ==
    /\ ret.op = "reset" /\ ret.outcome = "ok" /\ nsub >= 1
    /\ state.episode_id = 2 /\ state.step_count = 0
    /\ battles[current_battle].finished /\ ~state.is_battle_finished

\* C17: when reset() has returned successfully, the reward accumulators hold
\* their initial values (0 opponent faints, 0 own faints, opponent HP 1.0).
\* (In dense mode the reward reset() computes for its observation overwrites
\* them with the counts of the battle it bound.)
C17_ResetLeavesInitialAccumulators ==
    (ret.op = "reset" /\ ret.outcome = "ok") => accum = InitAccum

\* the battle that the battle_against task k asked for exists
Started(k) == \E i \in 1..Len(battles) : battles[i].task = k

\* C18: a reset() returns successfully only if the battle it asked for has
\* come into existence; otherwise it fails with an error.
\* (start_battle only checks that player.battles is not empty: from the
\* second reset on, the battle of the first episode satisfies it at once.)
C18_ResetNeedsItsBattle ==
    [][\A t \in Threads :
        (ResetReturns(t) /\ ~Started(Len(tasks)))
            => (ret'.op = "reset" /\ ret'.outcome = "RuntimeError")]_vars

\* C19: when the resolver has recorded an error (an invalid action or a
\* decision timeout), the next step() to complete returns an observation
\* whose metadata has a non-empty last_error and the illegal_action_count.
\* (_set_action of that step clears _last_error before step() reads it.)
C19_ErrorsReachTheCaller ==
    [][\A t \in Threads :
        (StepReturns(t) /\ unreported)
            => (ret'.obs.has_metadata /\ ret'.obs.last_error # NoError)]_vars

\* a step of the behaviour in which a step() with the legal Move 0 returns
\* while the battle is not finished
LegalMoveReturns(t) ==
    /\ StepReturns(t)
    /\ act[t].type = "move" /\ act[t].index = 0
    /\ ~battles[current_battle].finished

\* C20: a step() with the legal Move 0 on an unfinished battle returns an
\* observation whose turn is one more than the turn of the previous
\* observation.
\* (The latch is signalled when the order is decided; the snapshot is taken
\* before the next request raises battle.turn, or after a timeout.)
C20_TurnAdvancesByOne ==
    [][\A t \in Threads :
        LegalMoveReturns(t) => ret'.obs.turn = last_turn + 1]_vars

C22_CloseIsHarmless ==
    /\ [](ret.op = "close" => ret.outcome = "ok")
    /\ [][\A t \in Threads : Close(t)
            => /\ ret'.op = "close" /\ ret'.outcome = "ok"
               /\ UNCHANGED <<state, current_battle, battle_future, accum>>
               /\ UNCHANGED <<playerVars, ready, cm, wt, sb, battles>>
               /\ (ret.op = "close" => UNCHANGED tasks)]_vars

\* close() has returned after it cancelled the battle task of a reset()
C22_Witness ==
    /\ ret.op = "close" /\ ret.outcome = "ok"
    /\ battle_future # 0 /\ tasks[battle_future] = "cancelled"
    /\ state.episode_id = 1

\* C23: a close() called while a step() is in progress leaves that step and
\* its wait on the latch as they are; a wait on the latch ends only by the
\* signal or by its own timeout, and the step then returns an observation
\* without raising.
C23_CloseLeavesStepWaiting ==
    /\ [][\A t, u \in Threads : (Close(u) /\ InStep(t))
            => /\ wt'[t] = wt[t] /\ pc'[t] = pc[t] /\ act'[t] = act[t]
               /\ UNCHANGED <<ready, turn_complete_event, step_lock>>]_vars
    /\ [][\A t \in Threads : (wt[t] = "waiting" /\ wt'[t] # "waiting")
            => \/ wt'[t] = "timeout"
               \/ wt'[t] = "woken" /\ turn_complete_event']_vars
    /\ [][\A t \in Threads : StepReturns(t)
            => (ret'.op = "step" /\ ret'.outcome = "ok"
                /\ wt[t] \in {"done", "timeout"})]_vars

\* the other caller's close() has returned while a step() is waiting on the
\* latch, its battle task cancelled
C23_Witness ==
    /\ pc["t1"] = "step_wait" /\ wt["t1"] = "waiting"
    /\ ret.op = "close" /\ tasks[battle_future] = "cancelled"

\* C24: every invocation of choose_move that returns an order schedules the
\* signal of the turn latch, whichever path returns the order.
\* (The decision-timeout path and the empty-slot path return without it.)
C24_EveryPathSignals ==
    [][(res' # res /\ res'.path # "none")
        => /\ res'.signalled
           /\ ready' # <<>> /\ ready'[Len(ready')].k = "signal_complete"]_vars

\* C25: when the signal for the action of a step() ran before that step's
\* wait on the latch began, the wait completes as signalled: it does not run
\* into its timeout.
\* (wait_for_turn_complete clears the latch before it waits, which erases
\* the signal that was already there.)
C25_NoLostWakeup ==
    \A t \in Threads : (InStep(t) /\ early) => wt[t] # "timeout"

\* C26: the step in which choose_move takes an action also empties the slot
\* and clears the action event; the slot is occupied exactly when the event
\* is set; no action is taken twice; and an invocation of choose_move that
\* finds the event clear takes nothing and waits.
C26_TakeConsumesOnce ==
    /\ [](action_event <=> next_action # NoAction)
    /\ [][taken' # taken
            => /\ next_action # NoAction /\ next_action.id \notin taken
               /\ taken' = taken \cup {next_action.id}
               /\ next_action' = NoAction /\ ~action_event']_vars
    /\ [][(HeadIs("cm_start") /\ ready' = Tail(ready) /\ ~action_event)
            => (taken' = taken /\ cm' = "waiting"
                /\ next_action' = NoAction)]_vars

\* after the one submitted action was taken, the invocation of choose_move
\* for the next battle found the slot empty and waits
C26_Witness ==
    /\ taken = {1} /\ nsub = 1 /\ cm = "waiting"
    /\ next_action = NoAction /\ ~action_event
    /\ Len(battles) = 2

\* C27: a move with an in-range index that asks for mega evolution while
\* the battle does not allow it is resolved as an invalid action: default
\* order, illegal-action counter plus one, an error text, latch signalled.
C27_UnavailableModifierIsInvalid ==
    [][(taken' # taken
        /\ next_action.type = "move" /\ next_action.mega
        /\ next_action.index < battles'[Active].nmoves
        /\ ~battles'[Active].can_mega)
          => /\ res'.path = "invalid"
             /\ res'.order = RandomOrder
             /\ illegal_action_count' = illegal_action_count + 1
             /\ last_error' # NoError
             /\ res'.signalled]_vars

\* C28: when a switch is taken whose index is not below the number of legal
\* switch targets (none included), the default order is sent, the
\* illegal-action counter goes up by one, an error text is recorded and the
\* latch is signalled; when the index is in range the order sent is the
\* switch to exactly that target, counter and error text unchanged, and the
\* latch is signalled.
C28_SwitchPolicy ==
    [][(taken' # taken /\ next_action.type = "switch")
        => /\ ready' # <<>> /\ ready'[Len(ready')].k = "signal_complete"
           /\ res'.signalled /\ res'.id = next_action.id
           /\ battles'[Active].phase = "sent"
           /\ IF next_action.index >= battles'[Active].nswitches
              THEN /\ res'.path = "invalid" /\ res'.order = RandomOrder
                   /\ illegal_action_count' = illegal_action_count + 1
                   /\ last_error' # NoError
              ELSE /\ res'.path = "resolved"
                   /\ res'.order = Order("switch", next_action.index, FALSE)
                   /\ UNCHANGED <<illegal_action_count, last_error>>]_vars

\* a switch with the index far out of range was taken and counted, and the
\* step that submitted it returned with the error in its metadata
C28_Witness ==
    /\ res.path = "invalid" /\ res.id = 1 /\ illegal_action_count = 1
    /\ ret.op = "step" /\ ret.outcome = "ok"
    /\ ret.a.type = "switch" /\ ret.a.index = BigIndex
    /\ ret.obs.illegal_action_count = 1 /\ ret.obs.last_error # NoError

\* C29: whenever a forfeit is taken, whatever the request offers, the order
\* sent is the forfeit order, the illegal-action counter and the error text
\* stay as they are, and the latch is signalled.
C29_ForfeitAlwaysForfeits ==
    [][(taken' # taken /\ next_action.type = "forfeit")
        => /\ res'.path = "resolved" /\ res'.order = ForfeitBattleOrder
           /\ res'.id = next_action.id
           /\ battles'[Active].phase = "sent_forfeit"
           /\ UNCHANGED <<illegal_action_count, last_error>>
           /\ res'.signalled
           /\ ready' # <<>> /\ ready'[Len(ready')].k = "signal_complete"]_vars

\* a forfeit was taken against a request with no legal move and no legal
\* switch, and the forfeit order went out with nothing counted
C29_Witness ==
    /\ res.path = "resolved" /\ res.order = ForfeitBattleOrder /\ res.id = 1
    /\ battles[Active].nmoves = 0 /\ battles[Active].nswitches = 0
    /\ battles[Active].phase = "sent_forfeit"
    /\ illegal_action_count = 0 /\ last_error = NoError

\* an invocation of choose_move is queued on POKE_LOOP or waits for an action
InChooseMove ==
    \/ cm # "idle"
    \/ \E i \in 1..Len(ready) : ready[i].k = "cm_start"

\* C30: every invocation of choose_move, from the moment the request queues
\* it, leads to a state where it has returned and its order has gone to the
\* battle, whether or not an action is ever submitted.
C30_ChooseMoveReturns ==
    InChooseMove
        ~> (~InChooseMove /\ res.path # "none"
            /\ battles[Active].phase \in {"sent", "sent_forfeit"})

\* choose_move returned on its timeout in an episode where step() was never
\* called
C30_Witness ==
    /\ res.path = "timeout" /\ nsub = 0 /\ taken = {}
    /\ cm = "idle" /\ battles[Active].phase = "sent_forfeit"

\* C31: under a reward mode that is neither sparse nor dense, every step()
\* that gets past its wait returns an observation, with reward 0 when it is
\* not done and the sparse value of the battle's outcome when it is done.
C31_OtherModeIsSparse ==
    [][\A t \in Threads :
        (pc[t] = "step_wait" /\ pc'[t] = "idle" /\ reward_mode \notin RewardModes)
          => /\ ret'.outcome = "ok"
             /\ ret'.obs.reward =
                  Reward(IF ret'.obs.done
                         THEN Outcome(battles[current_battle], SparseWin, -SparseWin)
                         ELSE 0)]_vars

\* C32: when a reset() returns an observation, the controller's current
\* battle is the one played by the task that this reset created, and it is
\* not finished.
C32_ResetTakesItsOwnBattle ==
    [][\A t \in Threads :
        (ResetReturns(t) /\ ret'.outcome = "ok")
          => /\ battles[current_battle'].task = battle_future'
             /\ ~battles[current_battle'].finished]_vars

\* C33: whenever choose_move takes an action out of the mailbox, that action
\* is the one of a step() that is still in progress; an action left behind
\* by a step that has returned is never taken.
C33_NoStaleActionTaken ==
    [][taken' # taken
        => \E t \in Threads : InStep(t) /\ act[t].id = next_action.id]_vars

\* C34: when a move or a switch is taken, it resolves to an order exactly
\* when 0 <= index < number of legal options of its kind; with any other
\* index, a negative one included, the default order is sent and the
\* illegal-action counter goes up by one.
C34_OnlyIndicesInRangeResolve ==
    [][(taken' # taken /\ next_action.type \in {"move", "switch"})
        => LET n == IF next_action.type = "move"
                    THEN battles'[Active].nmoves ELSE battles'[Active].nswitches
               inRange == 0 <= next_action.index /\ next_action.index < n
           IN IF inRange
              THEN res'.path = "resolved" /\ res'.order.k = next_action.type
                   /\ res'.order.i = next_action.index
              ELSE /\ res'.path = "invalid" /\ res'.order = RandomOrder
                   /\ illegal_action_count' = illegal_action_count + 1]_vars

\* C35: once a step() of the episode has seen the battle won or lost (and
\* so has returned done with the outcome reward), every later step() of the
\* same episode returns a reward without the outcome value. Stated for
\* battles that do no damage, where the outcome is the whole reward.
C35_OutcomePaidOnce ==
    [][\A t \in Threads :
        (StepReturns(t) /\ ret'.outcome = "ok" /\ state.is_battle_finished
         /\ state.battle_winner \notin {"None", "tie"})
          => ret'.obs.reward = Reward(0)]_vars

\* C36: a step() that returned done leaves the finished flag set, and while
\* that flag is set (no reset() has succeeded since) every step() that
\* returns returns done.
C36_DoneIsMonotone ==
    /\ []((ret.op = "step" /\ ret.outcome = "ok" /\ ret.obs.done)
            => state.is_battle_finished)
    /\ [][\A t \in Threads :
            (StepReturns(t) /\ state.is_battle_finished)
              => (ret'.outcome = "ok" /\ ret'.obs.done
                  /\ state'.is_battle_finished)]_vars

\* the second step() of an episode returned done, far below the turn limit,
\* after the first one had returned done
C36_Witness ==
    /\ ret.op = "step" /\ ret.outcome = "ok" /\ ret.obs.done
    /\ state.step_count = 2 /\ state.step_count < DefaultMaxTurns
    /\ state.is_battle_finished /\ ndone = 2

\* C37: the illegal-action counter changes in no step other than by plus
\* one, it goes up by one exactly in the steps in which choose_move takes an
\* action that does not convert to an order, and a reset() that returns
\* leaves it as it was.
C37_CounterCountsRejections ==
    /\ [][illegal_action_count' \in {illegal_action_count, illegal_action_count + 1}]_vars
    /\ [][(illegal_action_count' = illegal_action_count + 1)
            <=> (taken' # taken /\ next_action # NoAction
                 /\ ~ActionToOrder(next_action, battles'[Active]).ok)]_vars
    /\ [][\A t \in Threads :
            ResetReturns(t) => illegal_action_count' = illegal_action_count]_vars

\* the one rejection of the first episode is still counted after the reset()
\* that started the second
C37_Witness ==
    /\ illegal_action_count = 1 /\ res.path = "invalid"
    /\ ret.op = "reset" /\ ret.outcome = "ok" /\ state.episode_id = 2

\* C38: a reset() that returns with an error leaves episode id, step
\* counter, finished flag, winner and current battle as they are, and the
\* reward accumulators as they were when the call began.
C38_FailedResetChangesNothing ==
    [][\A t \in Threads :
        (ResetReturns(t) /\ ret'.outcome # "ok")
          => /\ UNCHANGED <<state, current_battle>>
             /\ accum' = entry_accum]_vars

\* C39: between the steps of POKE_LOOP the action event is set exactly when
\* the mailbox slot holds an action, a choose_move woken by the event finds
\* an action in the slot, and no invocation of choose_move ever ends on the
\* branch for an empty slot.
C39_EventMatchesSlot ==
    /\ [](action_event = (next_action # NoAction))
    /\ [](cm = "woken" => next_action # NoAction)
    /\ [](res.path # "empty")

\* choose_move, woken by the event of the first submitted action, is about
\* to read the slot, which holds that action
C39_Witness ==
    /\ cm = "woken" /\ HeadIs("cm_wake")
    /\ action_event /\ next_action.id = 1 /\ nsub = 1 /\ taken = {}

====
